---- MODULE Spec2Model ----
(***************************************************************************)
(* Model of package logger (src/logger.go): the default-logger slot, the   *)
(* Init entry point, the severity router (output), Fatal's close/exit path *)
(* and the free functions that delegate to the default logger.             *)
(*                                                                         *)
(* Threads are goroutines of one process.  Every statement that touches    *)
(* shared state (logLock, defaultLogger, a sink, a closer) is a step of    *)
(* its own, so that interleavings of concurrent calls are explored.        *)
(***************************************************************************)
EXTENDS Integers, Sequences, FiniteSets, TLC

\* ---------------------------------------------------------------- bounds
NumThreads == 2
MaxCalls == 3
MaxFairCalls == 2
MaxInternalCalls == 2
MaxLoggers == 2
MaxQLoggers == 2
MaxQCalls == 2

Threads == 1..NumThreads

\* ------------------------------------------------------------- constants
sInfo == 0
sError == 1
sFatal == 2
\* Values of the severity type other than the three constants.
OtherSeverities == {3}

initText == <<"ERROR: Logging before logger.Init.\n">>

\* Sinks.  The process streams, the two system-log channels returned by
\* setup, and the writers a caller may pass to Init as logFile: "buf" is an
\* in-memory buffer (no Close, writes never fail), "file" and "file2" are
\* open files (io.Closer, a write may fail and always fails once the file is
\* closed).  LogFiles are the writers passed to Init where one file is
\* enough, TwoFiles where two Loggers must have files of their own.
Stderr == "stderr"
Stdout == "stdout"
SysInfo == "sysInfo"
SysErr == "sysErr"
Files == {"file", "file2"}
LogFiles == {"buf", "file"}
TwoFiles == {"buf"} \cup Files
Sinks == {Stderr, Stdout, SysInfo, SysErr} \cup LogFiles \cup TwoFiles
Nil == "nil"

\* logFile.(io.Closer): the files support Close, the buffer does not.
IsCloser(w) == w \in Files

\* Function names of one surface (method or free function).
Fns == {"Info", "Infoln", "Infof", "Error", "Errorln", "Errorf",
        "Fatal", "Fatalln", "Fatalf"}

SevOf(fn) ==
  IF fn \in {"Info", "Infoln", "Infof"} THEN sInfo
  ELSE IF fn \in {"Error", "Errorln", "Errorf"} THEN sError
  ELSE sFatal

\* fmt.Sprint / fmt.Sprintf leave the text as it is, fmt.Sprintln appends a
\* newline.  A text is its call's identity and whether it ends in "\n".
Sprint(id) == [id |-> id, nl |-> FALSE]
Sprintf(id) == [id |-> id, nl |-> FALSE]
Sprintln(id) == [id |-> id, nl |-> TRUE]

TextOf(fn, id) ==
  IF fn \in {"Info", "Error", "Fatal"} THEN Sprint(id)
  ELSE IF fn \in {"Infoln", "Errorln", "Fatalln"} THEN Sprintln(id)
  ELSE Sprintf(id)

\* log.New(w, prefix, flags): w is the list of writers of the io.MultiWriter
\* (a single writer for the placeholder).
LogNew(w, prefix) == [w |-> w, prefix |-> prefix]

\* An Output that appends a newline whatever the text ends in.
OutputLineAlwaysNewline(txt) == [id |-> txt.id, nls |-> (IF txt.nl THEN 1 ELSE 0) + 1]

\* log.Logger.Output: prefix, header, text, and a newline unless the text
\* already ends in one: the text of the line, with its count of newlines.
OutputLine(txt) == [id |-> txt.id, nls |-> (IF txt.nl THEN 1 ELSE 0) + (IF txt.nl THEN 0 ELSE 1)]

\* The line reaches a writer in two pieces: prefix and header, then text.
HeadOf(lg, line) == [c |-> line.id, part |-> "head", pre |-> lg.prefix, nls |-> 0]
TailOf(lg, line) == [c |-> line.id, part |-> "tail", pre |-> <<>>, nls |-> line.nls]

\* A placeholder whose prefixes lack the warning.
PlaceholderNoWarning ==
  [infoLog  |-> LogNew(<<Stderr>>, <<"INFO: ">>),
   errorLog |-> LogNew(<<Stderr>>, <<"ERROR: ">>),
   fatalLog |-> LogNew(<<Stderr>>, <<"FATAL: ">>),
   closers  |-> <<>>,
   initialized |-> FALSE]

\* The placeholder installed by initialize().
Placeholder ==
  [infoLog  |-> LogNew(<<Stderr>>, initText \o <<"INFO: ">>),
   errorLog |-> LogNew(<<Stderr>>, initText \o <<"ERROR: ">>),
   fatalLog |-> LogNew(<<Stderr>>, initText \o <<"FATAL: ">>),
   closers  |-> <<>>,
   initialized |-> FALSE]

\* setup(name) on a platform without a backend (logger_other.go).
SetupOther == [il |-> Nil, el |-> Nil, err |-> TRUE]
\* setup(name) on a platform with a system log.
SetupSyslog == [il |-> SysInfo, el |-> SysErr, err |-> FALSE]

\* An Init that puts the process error stream among the info writers.
NewLoggerInfoToStderr(verbose, il, el, logFile) ==
  LET iLogs0 == <<logFile, Stderr>>
      eLogs0 == <<logFile, Stderr>>
      iLogs1 == IF verbose THEN Append(iLogs0, Stdout) ELSE iLogs0
      iLogs  == IF il # Nil THEN Append(iLogs1, il) ELSE iLogs1
      eLogs  == IF el # Nil THEN Append(eLogs0, el) ELSE eLogs0
  IN [infoLog  |-> LogNew(iLogs, <<"INFO: ">>),
      errorLog |-> LogNew(eLogs, <<"ERROR: ">>),
      fatalLog |-> LogNew(eLogs, <<"FATAL: ">>),
      closers  |-> IF IsCloser(logFile) THEN <<logFile>> ELSE <<>>,
      initialized |-> TRUE]

\* An Init that gives the verbose writer to the error and fatal logs too.
NewLoggerVerboseErrors(verbose, il, el, logFile) ==
  LET iLogs0 == <<logFile>>
      eLogs0 == <<logFile, Stderr>>
      iLogs1 == IF verbose THEN Append(iLogs0, Stdout) ELSE iLogs0
      eLogs1 == IF verbose THEN Append(eLogs0, Stdout) ELSE eLogs0
      iLogs  == IF il # Nil THEN Append(iLogs1, il) ELSE iLogs1
      eLogs  == IF el # Nil THEN Append(eLogs1, el) ELSE eLogs1
  IN [infoLog  |-> LogNew(iLogs, <<"INFO: ">>),
      errorLog |-> LogNew(eLogs, <<"ERROR: ">>),
      fatalLog |-> LogNew(eLogs, <<"FATAL: ">>),
      closers  |-> IF IsCloser(logFile) THEN <<logFile>> ELSE <<>>,
      initialized |-> TRUE]

\* The Logger Init builds (lines 67-86).
NewLogger(verbose, il, el, logFile) ==
  LET iLogs0 == <<logFile>>
      eLogs0 == <<logFile, Stderr>>
      iLogs1 == IF verbose THEN Append(iLogs0, Stdout) ELSE iLogs0
      iLogs  == IF il # Nil THEN Append(iLogs1, il) ELSE iLogs1
      eLogs  == IF el # Nil THEN Append(eLogs0, el) ELSE eLogs0
  IN [infoLog  |-> LogNew(iLogs, <<"INFO: ">>),
      errorLog |-> LogNew(eLogs, <<"ERROR: ">>),
      fatalLog |-> LogNew(eLogs, <<"FATAL: ">>),
      closers  |-> IF IsCloser(logFile) THEN <<logFile>> ELSE <<>>,
      initialized |-> TRUE]

\* The switch of output: the log.Logger a severity is routed to, Nil for the
\* default branch.
Route(l, s) ==
  IF s = sInfo THEN l.infoLog
  ELSE IF s = sError THEN l.errorLog
  ELSE IF s = sFatal THEN l.fatalLog
  ELSE Nil

\* ----------------------------------------------------------------- state
VARIABLES
  heap,           \* the Logger objects allocated so far; heap[1] is the placeholder
  args,           \* for each Logger, the arguments of the Init that built it
  defaultLogger,  \* the default slot: an index into heap
  logLock,        \* 0 when free, else the thread holding it
  hasSyslog,      \* whether this build's setup has a system-log backend
  out,            \* what each sink has received, as a sequence of pieces
  closed,         \* the closers Close has been called on
  pc,             \* each thread's position
  loc,            \* each thread's locals
  ncalls,         \* calls started so far; a call's number identifies its message
  calls,          \* for each call so far: the Logger output was called on (0 for
                  \* an Init), the severity, and whether it is a free function
  held,           \* Loggers returned by Init to the program
  slotWrites,     \* number of assignments to defaultLogger since initialize()
  initsDone,      \* number of Init calls that have returned
  exitCode        \* -1 while the process runs, else the status of os.Exit

vars == <<heap, args, defaultLogger, logLock, hasSyslog, out, closed, pc, loc,
          ncalls, calls, held, slotWrites, initsDone, exitCode>>

\* State of the queue-based variant (src/unnamed/part_000), a program of its
\* own: it does not move while the program above runs, and the other way
\* round.
VARIABLES
  qloggers,   \* the loggers made by NewLogger: for each its channel's sink-side owner
  qworkers,   \* the goroutines started by "go l.run(w)"
  qheld,      \* the loggers NewLogger has returned
  qret,       \* what the last NewLogger call got and returned
  qpc,        \* for each thread, where it is in a log call
  qloc,       \* for each thread, the logger and message of its call
  qsink,      \* for each writer, the pieces written to it so far
  qmsgs,      \* (ghost) the messages built so far, by number
  qexit       \* -1 while the process runs, then its exit status

qvars == <<qloggers, qworkers, qheld, qret, qpc, qloc, qsink, qmsgs, qexit>>

\* The writers given to NewLogger, and its names.
QSinks == {"w1", "w2"}
QNames == {"", "n"}

\* The log functions called on a logger of the variant: one of each
\* severity, with and without a newline ending the text.
QFns == {"Info", "Errorln", "Fatal"}

NoMsg == [id |-> 0, sev |-> "", nl |-> FALSE]
NoRet == [name |-> Nil, l |-> 0, err |-> FALSE]
QNoLoc == [lg |-> 0, m |-> NoMsg]

QStart ==
  /\ qloggers = <<>>
  /\ qworkers = <<>>
  /\ qheld = {}
  /\ qret = NoRet
  /\ qpc = [t \in Threads |-> "idle"]
  /\ qloc = [t \in Threads |-> QNoLoc]
  /\ qsink = [w \in QSinks |-> <<>>]
  /\ qmsgs = <<>>
  /\ qexit = -1

NoLoc == [lg |-> 0, s |-> -1, free |-> FALSE, line |-> [id |-> 0, nls |-> 0],
          i |-> 0, tried |-> <<>>, err |-> Nil, uninit |-> FALSE, cerr |-> FALSE]

Running == exitCode = -1

CanCall(t) == Running /\ pc[t] = "idle" /\ ncalls < MaxCalls

Init ==
  /\ heap = <<Placeholder>>
  /\ args = <<[verbose |-> FALSE, systemLog |-> FALSE, logFile |-> Nil]>>
  /\ defaultLogger = 1
  /\ logLock = 0
  /\ hasSyslog \in BOOLEAN
  /\ out = [s \in Sinks |-> <<>>]
  /\ closed = {}
  /\ pc = [t \in Threads |-> "idle"]
  /\ loc = [t \in Threads |-> NoLoc]
  /\ ncalls = 0
  /\ calls = <<>>
  /\ held = {}
  /\ slotWrites = 0
  /\ initsDone = 0
  /\ exitCode = -1
  /\ QStart

\* A Lock that does not wait for the holder.
LockNoWait(t) == logLock' = t

\* sync.Mutex
Lock(t) == logLock = 0 /\ logLock' = t

\* An Unlock that leaves the lock with its holder.
UnlockKept(t) == logLock' = logLock

Unlock(t) == logLock' = 0

\* setup(name) of this build.
setup == IF hasSyslog THEN SetupSyslog ELSE SetupOther

\* ------------------------------------------------------------------ Init
\* Init that goes on without the system log when setup fails.
InitBuildDegraded(t, verbose, systemLog, logFile) ==
  /\ CanCall(t)
  /\ Len(heap) < MaxLoggers + 1
  /\ ncalls' = ncalls + 1
  /\ calls' = Append(calls, [lg |-> 0, s |-> -1, free |-> TRUE])
  /\ LET r == IF systemLog THEN setup ELSE [il |-> Nil, el |-> Nil, err |-> FALSE]
     IN /\ heap' = Append(heap, NewLogger(verbose, r.il, r.el, logFile))
        /\ args' = Append(args, [verbose |-> verbose, systemLog |-> systemLog, logFile |-> logFile])
        /\ loc' = [loc EXCEPT ![t] = [NoLoc EXCEPT !.lg = Len(heap) + 1]]
        /\ pc' = [pc EXCEPT ![t] = "init_lock"]
        /\ UNCHANGED <<out, exitCode>>
  /\ UNCHANGED <<defaultLogger, logLock, hasSyslog, closed, held, slotWrites, initsDone>>
  /\ UNCHANGED qvars

\* Lines 57-86: setup, the writer lists and the new Logger; log.Fatal(err)
\* when setup fails (the standard logger prints to stderr and exits 1).
InitBuild(t, verbose, systemLog, logFile) ==
  /\ CanCall(t)
  /\ Len(heap) < MaxLoggers + 1
  /\ ncalls' = ncalls + 1
  /\ calls' = Append(calls, [lg |-> 0, s |-> -1, free |-> TRUE])
  /\ LET r == IF systemLog THEN setup ELSE [il |-> Nil, el |-> Nil, err |-> FALSE]
     IN IF r.err
        THEN /\ out' = [out EXCEPT ![Stderr] = Append(@,
                          [c |-> ncalls + 1, part |-> "log.Fatal", pre |-> <<>>, nls |-> 1])]
             /\ exitCode' = 1
             /\ UNCHANGED <<heap, args, pc, loc>>
        ELSE /\ heap' = Append(heap, NewLogger(verbose, r.il, r.el, logFile))
             /\ args' = Append(args, [verbose |-> verbose, systemLog |-> systemLog, logFile |-> logFile])
             /\ loc' = [loc EXCEPT ![t] = [NoLoc EXCEPT !.lg = Len(heap) + 1]]
             /\ pc' = [pc EXCEPT ![t] = "init_lock"]
             /\ UNCHANGED <<out, exitCode>>
  /\ UNCHANGED <<defaultLogger, logLock, hasSyslog, closed, held, slotWrites, initsDone>>
  /\ UNCHANGED qvars

\* Init without the guard: the check-and-set is entered without the lock.
InitLockSkipped(t) ==
  /\ Running /\ pc[t] = "init_lock"
  /\ pc' = [pc EXCEPT ![t] = "init_check"]
  /\ UNCHANGED <<heap, args, defaultLogger, logLock, hasSyslog, out, closed, loc, ncalls, calls,
                 held, slotWrites, initsDone, exitCode>>
  /\ UNCHANGED qvars

\* Line 88: logLock.Lock()
InitLock(t) ==
  /\ Running /\ pc[t] = "init_lock"
  /\ Lock(t)
  /\ pc' = [pc EXCEPT ![t] = "init_check"]
  /\ UNCHANGED <<heap, args, defaultLogger, hasSyslog, out, closed, loc, ncalls, calls,
                 held, slotWrites, initsDone, exitCode>>
  /\ UNCHANGED qvars

\* Line 90: if !defaultLogger.initialized
InitCheck(t) ==
  /\ Running /\ pc[t] = "init_check"
  /\ loc' = [loc EXCEPT ![t].uninit = ~heap[defaultLogger].initialized]
  /\ pc' = [pc EXCEPT ![t] = "init_set"]
  /\ UNCHANGED <<heap, args, defaultLogger, logLock, hasSyslog, out, closed, ncalls, calls,
                 held, slotWrites, initsDone, exitCode>>
  /\ UNCHANGED qvars

\* Init assigning the slot whatever the check found.
InitSetAlways(t) ==
  /\ Running /\ pc[t] = "init_set"
  /\ defaultLogger' = loc[t].lg /\ slotWrites' = slotWrites + 1
  /\ pc' = [pc EXCEPT ![t] = "init_ret"]
  /\ UNCHANGED <<heap, args, logLock, hasSyslog, out, closed, loc, ncalls, calls,
                 held, initsDone, exitCode>>
  /\ UNCHANGED qvars

\* Line 91: defaultLogger = &l
InitSet(t) ==
  /\ Running /\ pc[t] = "init_set"
  /\ IF loc[t].uninit
     THEN defaultLogger' = loc[t].lg /\ slotWrites' = slotWrites + 1
     ELSE UNCHANGED <<defaultLogger, slotWrites>>
  /\ pc' = [pc EXCEPT ![t] = "init_ret"]
  /\ UNCHANGED <<heap, args, logLock, hasSyslog, out, closed, loc, ncalls, calls,
                 held, initsDone, exitCode>>
  /\ UNCHANGED qvars

\* Lines 89, 94: the deferred Unlock and return &l
InitReturn(t) ==
  /\ Running /\ pc[t] = "init_ret"
  /\ Unlock(t)
  /\ held' = held \cup {loc[t].lg}
  /\ initsDone' = initsDone + 1
  /\ pc' = [pc EXCEPT ![t] = "idle"]
  /\ loc' = [loc EXCEPT ![t] = NoLoc]
  /\ UNCHANGED <<heap, args, defaultLogger, hasSyslog, out, closed, ncalls, calls,
                 slotWrites, exitCode>>
  /\ UNCHANGED qvars

\* ------------------------------------------------------- the log calls
\* Lines 140-196: (l *Logger) Info ... Fatalf: format the arguments and call
\* l.output, up to logLock.Lock() (line 116), the call's first access to
\* shared state.  l is a Logger some Init has returned.  The line Output will
\* make of the text is a function of the text alone and is kept in its final
\* form from here on.
MethodCall(t, l, fn) ==
  /\ CanCall(t)
  /\ l \in held
  /\ Lock(t)
  /\ ncalls' = ncalls + 1
  /\ calls' = Append(calls, [lg |-> l, s |-> SevOf(fn), free |-> FALSE])
  /\ loc' = [loc EXCEPT ![t] = [NoLoc EXCEPT !.lg = l, !.s = SevOf(fn), !.free = FALSE, !.i = 1,
                                 !.line = OutputLine(TextOf(fn, ncalls + 1))]]
  /\ pc' = [pc EXCEPT ![t] = "out_head"]
  /\ UNCHANGED <<heap, args, defaultLogger, hasSyslog, out, closed,
                 held, slotWrites, initsDone, exitCode>>
  /\ UNCHANGED qvars

\* Free functions that use the Logger built last instead of the default.
FreeCallLastBuilt(t, fn) ==
  /\ CanCall(t)
  /\ ncalls' = ncalls + 1
  /\ calls' = Append(calls, [lg |-> Len(heap), s |-> SevOf(fn), free |-> TRUE])
  /\ loc' = [loc EXCEPT ![t] = [NoLoc EXCEPT !.lg = Len(heap), !.s = SevOf(fn), !.free = TRUE,
                                 !.line = OutputLine(TextOf(fn, ncalls + 1))]]
  /\ pc' = [pc EXCEPT ![t] = "out_lock"]
  /\ UNCHANGED <<heap, args, defaultLogger, logLock, hasSyslog, out, closed,
                 held, slotWrites, initsDone, exitCode>>
  /\ UNCHANGED qvars

\* Free functions that keep using the placeholder they found at start-up.
FreeCallStale(t, fn) ==
  /\ CanCall(t)
  /\ ncalls' = ncalls + 1
  /\ calls' = Append(calls, [lg |-> 1, s |-> SevOf(fn), free |-> TRUE])
  /\ loc' = [loc EXCEPT ![t] = [NoLoc EXCEPT !.lg = 1, !.s = SevOf(fn), !.free = TRUE,
                                 !.line = OutputLine(TextOf(fn, ncalls + 1))]]
  /\ pc' = [pc EXCEPT ![t] = "out_lock"]
  /\ UNCHANGED <<heap, args, defaultLogger, logLock, hasSyslog, out, closed,
                 held, slotWrites, initsDone, exitCode>>
  /\ UNCHANGED qvars

\* Lines 200-259: Info ... Fatalf: the same on the Logger read from the
\* default slot.  The read is not synchronized with Init's assignment.
FreeCall(t, fn) ==
  /\ CanCall(t)
  /\ ncalls' = ncalls + 1
  /\ calls' = Append(calls, [lg |-> defaultLogger, s |-> SevOf(fn), free |-> TRUE])
  /\ loc' = [loc EXCEPT ![t] = [NoLoc EXCEPT !.lg = defaultLogger, !.s = SevOf(fn), !.free = TRUE,
                                 !.line = OutputLine(TextOf(fn, ncalls + 1))]]
  /\ pc' = [pc EXCEPT ![t] = "out_lock"]
  /\ UNCHANGED <<heap, args, defaultLogger, logLock, hasSyslog, out, closed,
                 held, slotWrites, initsDone, exitCode>>
  /\ UNCHANGED qvars

\* Line 116: logLock.Lock(), of a free function's call of output.
OutputLock(t) ==
  /\ Running /\ pc[t] = "out_lock"
  /\ Lock(t)
  /\ pc' = [pc EXCEPT ![t] = "out_head"]
  /\ loc' = [loc EXCEPT ![t].i = 1]
  /\ UNCHANGED <<heap, args, defaultLogger, hasSyslog, out, closed, ncalls, calls,
                 held, slotWrites, initsDone, exitCode>>
  /\ UNCHANGED qvars

\* The log.Logger of the call in progress, and the writer it is at.
CurLog(t) == Route(heap[loc[t].lg], loc[t].s)
CurWriter(t) == CurLog(t).w[loc[t].i]

\* Whether a write to w can succeed / can fail now.
MayFail(w) == w \in Files
MustFail(w) == w \in closed
WriteOutcomes(w) ==
  IF MustFail(w) THEN {FALSE} ELSE IF MayFail(w) THEN BOOLEAN ELSE {TRUE}

\* A MultiWriter that goes on to the next member after a failed write.
MultiNextAll(i, n, ok) == IF i < n THEN i + 1 ELSE 0

\* io.MultiWriter.Write: what follows the write to member i of n, which
\* succeeded (ok) or not: the next member, or 0, the end of the combined
\* write (the loop returns at the first error).
MultiNext(i, n, ok) == IF ok /\ i < n THEN i + 1 ELSE 0

\* Lines 118-124, Output and io.MultiWriter.Write: the write to the current
\* member begins.  A failed write leaves the sink as it was.
WriteHead(t) ==
  /\ Running /\ pc[t] = "out_head"
  /\ LET w == CurWriter(t) IN
     \E ok \in WriteOutcomes(w) :
       LET j == MultiNext(loc[t].i, Len(CurLog(t).w), FALSE) IN
       /\ loc' = [loc EXCEPT ![t].tried = Append(@, w),
                             ![t].err = IF ok \/ @ # Nil THEN @ ELSE w,
                             ![t].i = IF ok THEN @ ELSE j]
       /\ out' = IF ok THEN [out EXCEPT ![w] = Append(@, HeadOf(CurLog(t), loc[t].line))] ELSE out
       /\ pc' = [pc EXCEPT ![t] = IF ok THEN "out_tail"
                                  ELSE IF j = 0 THEN "out_unlock" ELSE "out_head"]
  /\ UNCHANGED <<heap, args, defaultLogger, logLock, hasSyslog, closed, ncalls, calls,
                 held, slotWrites, initsDone, exitCode>>
  /\ UNCHANGED qvars

\* The write to the current member ends; the MultiWriter moves on.
WriteTail(t) ==
  /\ Running /\ pc[t] = "out_tail"
  /\ LET w == CurWriter(t)
         j == MultiNext(loc[t].i, Len(CurLog(t).w), TRUE) IN
       /\ out' = [out EXCEPT ![w] = Append(@, TailOf(CurLog(t), loc[t].line))]
       /\ loc' = [loc EXCEPT ![t].i = j]
       /\ pc' = [pc EXCEPT ![t] = IF j = 0 THEN "out_unlock" ELSE "out_head"]
  /\ UNCHANGED <<heap, args, defaultLogger, logLock, hasSyslog, closed, ncalls, calls,
                 held, slotWrites, initsDone, exitCode>>
  /\ UNCHANGED qvars

\* Fatal without its call of close: output returns and the process exits.
OutputUnlockNoClose(t) ==
  /\ Running /\ pc[t] = "out_unlock"
  /\ Unlock(t)
  /\ IF loc[t].s = sFatal
     THEN /\ pc' = [pc EXCEPT ![t] = "exit"]
          /\ UNCHANGED loc
     ELSE /\ pc' = [pc EXCEPT ![t] = "idle"]
          /\ loc' = [loc EXCEPT ![t] = NoLoc]
  /\ UNCHANGED <<heap, args, defaultLogger, hasSyslog, out, closed, ncalls, calls,
                 held, slotWrites, initsDone, exitCode>>
  /\ UNCHANGED qvars

\* An output whose failed write ends the process instead of being dropped.
OutputUnlockAbortOnError(t) ==
  /\ Running /\ pc[t] = "out_unlock"
  /\ Unlock(t)
  /\ IF loc[t].s = sFatal \/ loc[t].err # Nil
     THEN /\ pc' = [pc EXCEPT ![t] = IF loc[t].err # Nil THEN "exit" ELSE "close_call"]
          /\ UNCHANGED loc
     ELSE /\ pc' = [pc EXCEPT ![t] = "idle"]
          /\ loc' = [loc EXCEPT ![t] = NoLoc]
  /\ UNCHANGED <<heap, args, defaultLogger, hasSyslog, out, closed, ncalls, calls,
                 held, slotWrites, initsDone, exitCode>>
  /\ UNCHANGED qvars

\* Line 117: the deferred Unlock; output returns (the error of Output is
\* dropped).  Info/Error return to the caller, Fatal goes on to close.
OutputUnlock(t) ==
  /\ Running /\ pc[t] = "out_unlock"
  /\ Unlock(t)
  /\ IF loc[t].s = sFatal
     THEN /\ pc' = [pc EXCEPT ![t] = "close_call"]
          /\ UNCHANGED loc
     ELSE /\ pc' = [pc EXCEPT ![t] = "idle"]
          /\ loc' = [loc EXCEPT ![t] = NoLoc]
  /\ UNCHANGED <<heap, args, defaultLogger, hasSyslog, out, closed, ncalls, calls,
                 held, slotWrites, initsDone, exitCode>>
  /\ UNCHANGED qvars

\* A Fatal method that closes the closers of the default Logger.
CloseCallAlwaysDefault(t) ==
  /\ Running /\ pc[t] = "close_call"
  /\ loc' = [loc EXCEPT ![t].lg = defaultLogger]
  /\ pc' = [pc EXCEPT ![t] = "close_lock"]
  /\ UNCHANGED <<heap, args, defaultLogger, logLock, hasSyslog, out, closed, ncalls, calls,
                 held, slotWrites, initsDone, exitCode>>
  /\ UNCHANGED qvars

\* Lines 178, 239: l.close() / defaultLogger.close(): the free function
\* reads the default slot again.
CloseCall(t) ==
  /\ Running /\ pc[t] = "close_call"
  /\ loc' = [loc EXCEPT ![t].lg = IF loc[t].free THEN defaultLogger ELSE @]
  /\ pc' = [pc EXCEPT ![t] = "close_lock"]
  /\ UNCHANGED <<heap, args, defaultLogger, logLock, hasSyslog, out, closed, ncalls, calls,
                 held, slotWrites, initsDone, exitCode>>
  /\ UNCHANGED qvars

\* Line 131: logLock.Lock()
CloseLock(t) ==
  /\ Running /\ pc[t] = "close_lock"
  /\ Lock(t)
  /\ loc' = [loc EXCEPT ![t].i = 1]
  /\ pc' = [pc EXCEPT ![t] = IF Len(heap[loc[t].lg].closers) = 0 THEN "close_unlock" ELSE "close_loop"]
  /\ UNCHANGED <<heap, args, defaultLogger, hasSyslog, out, closed, ncalls, calls,
                 held, slotWrites, initsDone, exitCode>>
  /\ UNCHANGED qvars

\* Whether a Close of closer c can succeed now: a closed file cannot be
\* closed again.
CloseOutcomes(c) == IF c \in closed THEN {FALSE} ELSE BOOLEAN

\* A close that returns at the first closer whose Close fails, back to the
\* caller of Fatal.
CloseLoopAbortOnError(t) ==
  /\ Running /\ pc[t] = "close_loop"
  /\ LET c == heap[loc[t].lg].closers[loc[t].i] IN
     \E ok \in CloseOutcomes(c) :
       /\ closed' = closed \cup {c}
       /\ loc' = [loc EXCEPT ![t].i = @ + 1, ![t].cerr = @ \/ ~ok]
       /\ pc' = [pc EXCEPT ![t] = IF ~ok THEN "close_failed"
                                  ELSE IF loc[t].i < Len(heap[loc[t].lg].closers)
                                       THEN "close_loop" ELSE "close_unlock"]
  /\ UNCHANGED <<heap, args, defaultLogger, logLock, hasSyslog, out, ncalls, calls,
                 held, slotWrites, initsDone, exitCode>>
  /\ UNCHANGED qvars

\* Lines 133-135: c.Close(), its error dropped (cerr only records that
\* there was one); Close has been called on c either way.
CloseLoop(t) ==
  /\ Running /\ pc[t] = "close_loop"
  /\ LET c == heap[loc[t].lg].closers[loc[t].i] IN
     \E ok \in CloseOutcomes(c) :
       /\ closed' = closed \cup {c}
       /\ loc' = [loc EXCEPT ![t].i = @ + 1, ![t].cerr = @ \/ ~ok]
       /\ pc' = [pc EXCEPT ![t] = IF loc[t].i < Len(heap[loc[t].lg].closers)
                                  THEN "close_loop" ELSE "close_unlock"]
  /\ UNCHANGED <<heap, args, defaultLogger, logLock, hasSyslog, out, ncalls, calls,
                 held, slotWrites, initsDone, exitCode>>
  /\ UNCHANGED qvars

\* Line 132: the deferred Unlock; close returns.
CloseUnlock(t) ==
  /\ Running /\ pc[t] = "close_unlock"
  /\ Unlock(t)
  /\ pc' = [pc EXCEPT ![t] = "exit"]
  /\ UNCHANGED <<heap, args, defaultLogger, hasSyslog, out, closed, loc, ncalls, calls,
                 held, slotWrites, initsDone, exitCode>>
  /\ UNCHANGED qvars

\* Lines 179, 240: os.Exit(1)
Exit(t) ==
  /\ Running /\ pc[t] = "exit"
  /\ exitCode' = 1
  /\ UNCHANGED <<heap, args, defaultLogger, logLock, hasSyslog, out, closed, pc, loc,
                 ncalls, calls, held, slotWrites, initsDone>>
  /\ UNCHANGED qvars

\* ------------------------------------------- output called directly
\* Line 115: l.output(s, txt) called from inside the package with a severity
\* that is none of the constants, up to logLock.Lock() (line 116).
OutputCall(t, l, s) ==
  /\ CanCall(t)
  /\ l \in held \cup {defaultLogger}
  /\ Lock(t)
  /\ ncalls' = ncalls + 1
  /\ calls' = Append(calls, [lg |-> l, s |-> s, free |-> FALSE])
  /\ loc' = [loc EXCEPT ![t] = [NoLoc EXCEPT !.lg = l, !.s = s, !.free = FALSE,
                                 !.line = OutputLine(Sprint(ncalls + 1))]]
  /\ pc' = [pc EXCEPT ![t] = "out_switch"]
  /\ UNCHANGED <<heap, args, defaultLogger, hasSyslog, out, closed,
                 held, slotWrites, initsDone, exitCode>>
  /\ UNCHANGED qvars

\* A default branch that panics with logLock still held.
SwitchNoUnlock(t) ==
  /\ Running /\ pc[t] = "out_switch"
  /\ IF loc[t].s \notin {sInfo, sError, sFatal}
     THEN /\ pc' = [pc EXCEPT ![t] = "panicking"]
          /\ UNCHANGED <<loc, logLock>>
     ELSE /\ pc' = [pc EXCEPT ![t] = "out_head"]
          /\ loc' = [loc EXCEPT ![t].i = 1]
          /\ UNCHANGED logLock
  /\ UNCHANGED <<heap, args, defaultLogger, hasSyslog, out, closed, ncalls, calls,
                 held, slotWrites, initsDone, exitCode>>
  /\ UNCHANGED qvars

\* Lines 118-127: the switch.  In the default branch panic(...) unwinds
\* output, running the deferred Unlock (line 117).
Switch(t) ==
  /\ Running /\ pc[t] = "out_switch"
  /\ IF loc[t].s \notin {sInfo, sError, sFatal}
     THEN /\ Unlock(t)
          /\ pc' = [pc EXCEPT ![t] = "panicking"]
          /\ UNCHANGED loc
     ELSE /\ pc' = [pc EXCEPT ![t] = "out_head"]
          /\ loc' = [loc EXCEPT ![t].i = 1]
          /\ UNCHANGED logLock
  /\ UNCHANGED <<heap, args, defaultLogger, hasSyslog, out, closed, ncalls, calls,
                 held, slotWrites, initsDone, exitCode>>
  /\ UNCHANGED qvars

\* The panic reaches the top of the thread's stack: the runtime prints it and
\* ends the process with status 2.
PanicExit(t) ==
  /\ Running /\ pc[t] = "panicking"
  /\ exitCode' = 2
  /\ UNCHANGED <<heap, args, defaultLogger, logLock, hasSyslog, out, closed, pc, loc,
                 ncalls, calls, held, slotWrites, initsDone>>
  /\ UNCHANGED qvars

Next ==
  \E t \in Threads :
    \/ \E v \in BOOLEAN, s \in BOOLEAN, f \in LogFiles : InitBuild(t, v, s, f)
    \/ InitLock(t)
    \/ InitCheck(t)
    \/ InitSet(t)
    \/ InitReturn(t)
    \/ \E l \in held, fn \in Fns : MethodCall(t, l, fn)
    \/ \E fn \in Fns : FreeCall(t, fn)
    \/ OutputLock(t)
    \/ WriteHead(t)
    \/ WriteTail(t)
    \/ OutputUnlock(t)
    \/ CloseCall(t)
    \/ CloseLock(t)
    \/ CloseLoop(t)
    \/ CloseUnlock(t)
    \/ Exit(t)

Spec == Init /\ [][Next]_vars

\* The steps by which thread t goes on with the call it is in.  The runtime
\* schedules every runnable thread again and again, and a thread waiting
\* for logLock gets it once it stays free.
Proceed(t) ==
  \/ InitLock(t) \/ InitCheck(t) \/ InitSet(t) \/ InitReturn(t)
  \/ OutputLock(t) \/ WriteHead(t) \/ WriteTail(t) \/ OutputUnlock(t)
  \/ CloseCall(t) \/ CloseLock(t) \/ CloseLoop(t) \/ CloseUnlock(t) \/ Exit(t)

\* The program under fair scheduling, for the claims about what eventually
\* happens: the same steps, with at most MaxFairCalls calls made.
FairNext ==
  \E t \in Threads :
    \/ \E v \in BOOLEAN, s \in BOOLEAN, f \in LogFiles :
          ncalls < MaxFairCalls /\ InitBuild(t, v, s, f)
    \/ InitLock(t)
    \/ InitCheck(t)
    \/ InitSet(t)
    \/ InitReturn(t)
    \/ \E l \in held, fn \in Fns : ncalls < MaxFairCalls /\ MethodCall(t, l, fn)
    \/ \E fn \in Fns : ncalls < MaxFairCalls /\ FreeCall(t, fn)
    \/ OutputLock(t)
    \/ WriteHead(t)
    \/ WriteTail(t)
    \/ OutputUnlock(t)
    \/ CloseCall(t)
    \/ CloseLock(t)
    \/ CloseLoop(t)
    \/ CloseUnlock(t)
    \/ Exit(t)

FairSpec == Init /\ [][FairNext]_vars /\ \A t \in Threads : WF_vars(Proceed(t))

\* The program with the package's own callers of output added, with at most
\* MaxInternalCalls calls made.
NextInternal ==
  \E t \in Threads :
    \/ \E v \in BOOLEAN, s \in BOOLEAN, f \in LogFiles :
          ncalls < MaxInternalCalls /\ InitBuild(t, v, s, f)
    \/ InitLock(t)
    \/ InitCheck(t)
    \/ InitSet(t)
    \/ InitReturn(t)
    \/ \E l \in held, fn \in Fns : ncalls < MaxInternalCalls /\ MethodCall(t, l, fn)
    \/ \E fn \in Fns : ncalls < MaxInternalCalls /\ FreeCall(t, fn)
    \/ \E l \in 1..Len(heap), s \in OtherSeverities :
          ncalls < MaxInternalCalls /\ OutputCall(t, l, s)
    \/ Switch(t)
    \/ PanicExit(t)
    \/ OutputLock(t)
    \/ WriteHead(t)
    \/ WriteTail(t)
    \/ OutputUnlock(t)
    \/ CloseCall(t)
    \/ CloseLock(t)
    \/ CloseLoop(t)
    \/ CloseUnlock(t)
    \/ Exit(t)

SpecInternal == Init /\ [][NextInternal]_vars

\* The program with Loggers over two files and the buffer (and no verbose
\* Loggers: standard output plays no part in closing).
NextClosers ==
  \E t \in Threads :
    \/ \E s \in BOOLEAN, f \in TwoFiles : InitBuild(t, FALSE, s, f)
    \/ InitLock(t)
    \/ InitCheck(t)
    \/ InitSet(t)
    \/ InitReturn(t)
    \/ \E l \in held, fn \in Fns : MethodCall(t, l, fn)
    \/ \E fn \in Fns : FreeCall(t, fn)
    \/ OutputLock(t)
    \/ WriteHead(t)
    \/ WriteTail(t)
    \/ OutputUnlock(t)
    \/ CloseCall(t)
    \/ CloseLock(t)
    \/ CloseLoop(t)
    \/ CloseUnlock(t)
    \/ Exit(t)

SpecClosers == Init /\ [][NextClosers]_vars

\* ============================================= the queue-based variant
\* Lines 28-32: the severities are strings here.
QSevOf(fn) ==
  IF fn \in {"Info", "Infoln", "Infof"} THEN "Info"
  ELSE IF fn \in {"Error", "Errorln", "Errorf"} THEN "Error"
  ELSE "Fatal"

\* Lines 69-119: message{sev, fmt.Sprint...(v...)}
Message(fn, id) == [id |-> id, sev |-> QSevOf(fn), nl |-> TextOf(fn, id).nl]

\* Lines 39-41 and 62: fmt.Fprintln(w, m.String()) writes "[sev]: msg" and a
\* newline, whatever msg ends in, in one Write: here the label, then the
\* text with its newlines.
QHeadOf(l, m) == [c |-> m.id, lg |-> l, part |-> "head", pre |-> <<"[", m.sev, "]: ">>, nls |-> 0]
QTailOf(l, m) == [c |-> m.id, lg |-> l, part |-> "tail", pre |-> <<>>,
                  nls |-> (IF m.nl THEN 1 ELSE 0) + 1]

QRunning == qexit = -1
QCalls == Len(qmsgs)

\* A NewLogger that takes any name.
QNewLoggerNoCheck(t, name, w) ==
  /\ QRunning /\ qpc[t] = "idle"
  /\ Len(qloggers) < MaxQLoggers
  /\ LET l == Len(qloggers) + 1 IN
       /\ qloggers' = Append(qloggers, [w |-> w])
       /\ qworkers' = Append(qworkers, [lg |-> l, w |-> w, pc |-> "recv", m |-> NoMsg])
       /\ qheld' = qheld \cup {l}
       /\ qret' = [name |-> name, l |-> l, err |-> FALSE]
  /\ UNCHANGED <<qpc, qloc, qsink, qmsgs, qexit>>
  /\ UNCHANGED vars

\* A NewLogger that starts two goroutines on the channel.
QNewLoggerTwoWorkers(t, name, w) ==
  /\ QRunning /\ qpc[t] = "idle"
  /\ IF Len(name) = 0
     THEN /\ qret' = [name |-> name, l |-> 0, err |-> TRUE]
          /\ UNCHANGED <<qloggers, qworkers, qheld>>
     ELSE /\ Len(qloggers) < MaxQLoggers
          /\ LET l == Len(qloggers) + 1 IN
               /\ qloggers' = Append(qloggers, [w |-> w])
               /\ qworkers' = qworkers \o <<[lg |-> l, w |-> w, pc |-> "recv", m |-> NoMsg],
                                           [lg |-> l, w |-> w, pc |-> "recv", m |-> NoMsg]>>
               /\ qheld' = qheld \cup {l}
               /\ qret' = [name |-> name, l |-> l, err |-> FALSE]
  /\ UNCHANGED <<qpc, qloc, qsink, qmsgs, qexit>>
  /\ UNCHANGED vars

\* Lines 48-57: NewLogger(name, w).  The logger is its channel, unbuffered;
\* "go l.run(w)" starts the goroutine that receives from it.
QNewLogger(t, name, w) ==
  /\ QRunning /\ qpc[t] = "idle"
  /\ IF Len(name) = 0
     THEN /\ qret' = [name |-> name, l |-> 0, err |-> TRUE]
          /\ UNCHANGED <<qloggers, qworkers, qheld>>
     ELSE /\ Len(qloggers) < MaxQLoggers
          /\ LET l == Len(qloggers) + 1 IN
               /\ qloggers' = Append(qloggers, [w |-> w])
               /\ qworkers' = Append(qworkers, [lg |-> l, w |-> w, pc |-> "recv", m |-> NoMsg])
               /\ qheld' = qheld \cup {l}
               /\ qret' = [name |-> name, l |-> l, err |-> FALSE]
  /\ UNCHANGED <<qpc, qloc, qsink, qmsgs, qexit>>
  /\ UNCHANGED vars

\* Lines 68-119: a log call builds its message and is about to send it.
QCall(t, l, fn) ==
  /\ QRunning /\ qpc[t] = "idle"
  /\ l \in qheld
  /\ QCalls < MaxQCalls
  /\ LET m == Message(fn, QCalls + 1) IN
       /\ qmsgs' = Append(qmsgs, [lg |-> l, sev |-> m.sev, by |-> t, got |-> FALSE])
       /\ qloc' = [qloc EXCEPT ![t] = [lg |-> l, m |-> m]]
  /\ qpc' = [qpc EXCEPT ![t] = "send"]
  /\ UNCHANGED <<qloggers, qworkers, qheld, qret, qsink, qexit>>
  /\ UNCHANGED vars

\* "l.msg <- m" meets "m := <-l.msg" (line 61) of a goroutine receiving on
\* the logger's channel: the send completes when the message is received.
\* Info/Error return; Fatal goes on to os.Exit.
QSend(t, k) ==
  /\ QRunning /\ qpc[t] = "send"
  /\ k \in 1..Len(qworkers)
  /\ qworkers[k].lg = qloc[t].lg /\ qworkers[k].pc = "recv"
  /\ qworkers' = [qworkers EXCEPT ![k].pc = "write", ![k].m = qloc[t].m]
  /\ qmsgs' = [qmsgs EXCEPT ![qloc[t].m.id].got = TRUE]
  /\ IF qloc[t].m.sev = "Fatal"
     THEN /\ qpc' = [qpc EXCEPT ![t] = "exit"]
          /\ UNCHANGED qloc
     ELSE /\ qpc' = [qpc EXCEPT ![t] = "idle"]
          /\ qloc' = [qloc EXCEPT ![t] = QNoLoc]
  /\ UNCHANGED <<qloggers, qheld, qret, qsink, qexit>>
  /\ UNCHANGED vars

\* Line 62: the Write of the line to w begins ...
QWriteBegin(k) ==
  /\ QRunning /\ k \in 1..Len(qworkers) /\ qworkers[k].pc = "write"
  /\ qsink' = [qsink EXCEPT ![qworkers[k].w] = Append(@, QHeadOf(qworkers[k].lg, qworkers[k].m))]
  /\ qworkers' = [qworkers EXCEPT ![k].pc = "writing"]
  /\ UNCHANGED <<qloggers, qheld, qret, qpc, qloc, qmsgs, qexit>>
  /\ UNCHANGED vars

\* ... and ends; the loop is back at its receive.
QWriteEnd(k) ==
  /\ QRunning /\ k \in 1..Len(qworkers) /\ qworkers[k].pc = "writing"
  /\ qsink' = [qsink EXCEPT ![qworkers[k].w] = Append(@, QTailOf(qworkers[k].lg, qworkers[k].m))]
  /\ qworkers' = [qworkers EXCEPT ![k].pc = "recv", ![k].m = NoMsg]
  /\ UNCHANGED <<qloggers, qheld, qret, qpc, qloc, qmsgs, qexit>>
  /\ UNCHANGED vars

\* Lines 106, 113, 120: os.Exit(1)
QExit(t) ==
  /\ QRunning /\ qpc[t] = "exit"
  /\ qexit' = 1
  /\ UNCHANGED <<qloggers, qworkers, qheld, qret, qpc, qloc, qsink, qmsgs>>
  /\ UNCHANGED vars

QInit ==
  /\ heap = <<Placeholder>>
  /\ args = <<[verbose |-> FALSE, systemLog |-> FALSE, logFile |-> Nil]>>
  /\ defaultLogger = 1
  /\ logLock = 0
  /\ hasSyslog = FALSE
  /\ out = [s \in Sinks |-> <<>>]
  /\ closed = {}
  /\ pc = [t \in Threads |-> "idle"]
  /\ loc = [t \in Threads |-> NoLoc]
  /\ ncalls = 0
  /\ calls = <<>>
  /\ held = {}
  /\ slotWrites = 0
  /\ initsDone = 0
  /\ exitCode = -1
  /\ QStart

QNext ==
  \/ \E t \in Threads :
       \/ \E name \in QNames, w \in QSinks : QNewLogger(t, name, w)
       \/ \E l \in qheld, fn \in QFns : QCall(t, l, fn)
       \/ \E k \in 1..MaxQLoggers * 2 : QSend(t, k)
       \/ QExit(t)
  \/ \E k \in 1..MaxQLoggers * 2 :
       \/ QWriteBegin(k)
       \/ QWriteEnd(k)

SpecQ == QInit /\ [][QNext]_qvars

\* The goroutines of the variant run whenever they can.
QFairSpec ==
  /\ SpecQ
  /\ \A k \in 1..MaxQLoggers * 2 : WF_qvars(QWriteBegin(k) \/ QWriteEnd(k))
  /\ \A t \in Threads : WF_qvars(QExit(t) \/ \E k \in 1..MaxQLoggers * 2 : QSend(t, k))

\* ================================================================ claims

\* Sink w holds the complete line of call n: its head directly followed by
\* its tail.
HasLine(w, n) ==
  \E i \in 1..(Len(out[w]) - 1) :
    /\ out[w][i].c = n /\ out[w][i].part = "head"
    /\ out[w][i + 1].c = n /\ out[w][i + 1].part = "tail"

\* Sink w holds some piece of the line of call n.
HasPiece(w, n) == \E i \in 1..Len(out[w]) : out[w][i].c = n

InInit == {"init_lock", "init_check", "init_set", "init_ret"}
InitLocked == {"init_check", "init_set", "init_ret"}

\* C1: the default slot is assigned at most once and holds the placeholder
\* exactly until then; the Init call that returns first returns the Logger
\* that is now the default, every later Init returns a new initialized Logger
\* other than the default and leaves the slot as it is, and once the slot
\* holds an initialized Logger it never changes again.
C1_FirstInitIsDefault ==
  /\ [](/\ slotWrites <= 1
        /\ (slotWrites = 0) <=> (defaultLogger = 1)
        /\ initsDone >= 1 => defaultLogger \in held)
  /\ [][/\ heap[defaultLogger].initialized => defaultLogger' = defaultLogger
        /\ initsDone' # initsDone =>
             \E l \in 2..Len(heap) :
               /\ l \notin held /\ held' = held \cup {l} /\ heap[l].initialized
               /\ initsDone = 0 => defaultLogger' = l
               /\ initsDone > 0 => l # defaultLogger /\ defaultLogger' = defaultLogger]_vars

\* Two Init calls have returned: the first one's Logger is the default, the
\* second one's is not.
C1_Witness ==
  /\ initsDone = 2 /\ Cardinality(held) = 2 /\ slotWrites = 1
  /\ defaultLogger \in held

\* C2: the check of defaultLogger.initialized and the assignment are one
\* critical section of logLock: at most one thread is between Lock and Unlock
\* of Init and it holds the lock, what the check found is still true when the
\* assignment is made, the slot is assigned at most once, and every Init in
\* progress or returned has a Logger of its own, initialized; once an Init has
\* returned, exactly one of the Loggers built is installed.
C2_InitCheckAndSetAtomic ==
  /\ slotWrites <= 1
  /\ \A t \in Threads : pc[t] \in InitLocked =>
        /\ logLock = t
        /\ \A u \in Threads \ {t} : pc[u] \notin InitLocked
  /\ \A t \in Threads : pc[t] = "init_set" =>
        loc[t].uninit = ~heap[defaultLogger].initialized
  /\ \A t \in Threads : pc[t] \in InInit =>
        /\ heap[loc[t].lg].initialized
        /\ loc[t].lg \notin held
        /\ \A u \in Threads \ {t} : pc[u] \in InInit => loc[u].lg # loc[t].lg
  /\ Cardinality(held) = initsDone
  /\ \A l \in held : heap[l].initialized
  /\ initsDone >= 1 => defaultLogger \in held /\ slotWrites = 1

\* Two threads are inside Init, both having built their Logger while the slot
\* held the placeholder: the one that built later has won the lock and
\* installed its Logger, the other waits at Lock.
C2_Witness ==
  \E t \in Threads, u \in Threads :
    /\ t # u
    /\ pc[t] = "init_ret" /\ defaultLogger = loc[t].lg /\ slotWrites = 1
    /\ pc[u] = "init_lock" /\ loc[u].lg < loc[t].lg

\* ---- the Fatal path
AfterOutput == {"close_call", "close_lock", "close_loop", "close_unlock", "exit"}

\* The fatal sinks of the Logger the output step of call n ran on.
FatalSinks(n) == heap[calls[n].lg].fatalLog.w

Range(q) == {q[k] : k \in 1..Len(q)}
IsPrefix(p, q) == Len(p) <= Len(q) /\ p = SubSeq(q, 1, Len(p))

\* What a combined write that has ended left behind, for thread t and the
\* writer list W: the members were tried in order up to the first failure,
\* each one before it holds the line, the failing one and the ones after it
\* hold nothing of it.
WroteUpToFirstFailure(t, W) ==
  LET n == loc[t].line.id
      tr == loc[t].tried IN
  /\ Len(tr) >= 1 /\ IsPrefix(tr, W)
  /\ loc[t].err = Nil => tr = W
  /\ loc[t].err # Nil => loc[t].err = tr[Len(tr)]
  /\ \A k \in 1..Len(W) :
        IF k <= Len(tr) /\ W[k] # loc[t].err THEN HasLine(W[k], n) ELSE ~HasPiece(W[k], n)

\* C3 as stated: once a Fatal call is past its output step (about to close,
\* closing, or at exit) its line has been handed to every sink of the fatal
\* sink set, and at exit the Logger's closers are closed.
C3_Original ==
  \A t \in Threads : pc[t] \in AfterOutput =>
    /\ Range(FatalSinks(loc[t].line.id)) \subseteq Range(loc[t].tried)
    /\ pc[t] = "exit" => Range(heap[loc[t].lg].closers) \subseteq closed

\* C3 amended: a Fatal call writes its line to the fatal sinks in order up
\* to the first whose write fails (to all of them when none fails), only then
\* does it close the closers, and only with them closed does it exit, with
\* status 1; a closer is only ever closed by a Fatal call whose output step has
\* returned, and a Fatal call never returns to its caller.
C3_FatalWriteCloseExit ==
  /\ [](/\ exitCode \in {-1, 1}
        /\ \A t \in Threads : pc[t] \in AfterOutput =>
              /\ loc[t].s = sFatal
              /\ WroteUpToFirstFailure(t, FatalSinks(loc[t].line.id))
              /\ pc[t] = "exit" => Range(heap[loc[t].lg].closers) \subseteq closed)
  /\ [][/\ closed' # closed =>
             \E t \in Threads : /\ pc[t] = "close_loop"
                                 /\ closed' \subseteq closed \cup Range(heap[loc[t].lg].closers)
        /\ (exitCode' # exitCode /\ ncalls' = ncalls) => \E t \in Threads : pc[t] = "exit"
        /\ \A t \in Threads : loc[t].s = sFatal => pc'[t] # "idle"]_vars

\* A Fatal call on a Logger that owns the file has written its line to the
\* file and to stderr, closed the file and exited with status 1.
C3_Witness ==
  \E t \in Threads :
    /\ pc[t] = "exit" /\ exitCode = 1 /\ loc[t].err = Nil
    /\ "file" \in closed /\ heap[loc[t].lg].closers = <<"file">>
    /\ HasLine("file", loc[t].line.id) /\ HasLine(Stderr, loc[t].line.id)

\* ---- the combined write
\* C4 as stated: a combined write tries every member, in insertion order,
\* whether or not an earlier member's write failed.
C4_Original ==
  \A t \in Threads : pc[t] = "out_unlock" => loc[t].tried = CurLog(t).w

\* C4 amended: a combined write tries the members in insertion order and
\* stops at the first member whose write fails: the members before it hold
\* the line, the failing one and the ones after it hold nothing of it, and
\* the error surfaced is that first (and only) failure; when no write fails
\* every member holds the line.
C4_StopsAtFirstFailure ==
  \A t \in Threads : pc[t] = "out_unlock" => WroteUpToFirstFailure(t, CurLog(t).w)

\* A combined write has ended at the failed write to the file, with members
\* after it that were not tried.
C4_Witness ==
  \E t \in Threads :
    /\ pc[t] = "out_unlock" /\ loc[t].err = "file"
    /\ Len(loc[t].tried) < Len(CurLog(t).w)

\* ---- the destinations of each severity
\* The destinations the arguments of Init call for, in the order of the
\* writer lists.
InfoDest(a) ==
  <<a.logFile>> \o (IF a.verbose THEN <<Stdout>> ELSE <<>>)
                \o (IF a.systemLog THEN <<SysInfo>> ELSE <<>>)
ErrorDest(a) ==
  <<a.logFile, Stderr>> \o (IF a.systemLog THEN <<SysErr>> ELSE <<>>)

\* A combined write that has ended on a Logger built by Init.
EndedWrite(t, sevs) ==
  pc[t] = "out_unlock" /\ loc[t].s \in sevs /\ loc[t].lg >= 2

\* C5 as stated: every Info message on a Logger built by Init is handed to
\* logFile, to standard output iff verbose, to the system-log info channel iff
\* systemLog, and never to the process error stream.
C5_Original ==
  \A t \in Threads : EndedWrite(t, {sInfo}) =>
    LET a == args[loc[t].lg]
        tr == Range(loc[t].tried) IN
    /\ a.logFile \in tr
    /\ (Stdout \in tr) <=> a.verbose
    /\ (SysInfo \in tr) <=> a.systemLog
    /\ Stderr \notin tr

\* C5 amended: an Info message on a Logger built by Init(name, verbose,
\* systemLog, logFile) goes to logFile, then standard output if verbose, then
\* the system-log info channel if systemLog, in that order and only as far as
\* the first write that fails: when no write fails exactly these sinks receive
\* it, a sink after a failed write receives nothing, and no other sink, the
\* process error stream included, ever receives any of it.
C5_InfoDestinations ==
  \A t \in Threads : EndedWrite(t, {sInfo}) =>
    /\ WroteUpToFirstFailure(t, InfoDest(args[loc[t].lg]))
    /\ \A w \in Sinks \ Range(InfoDest(args[loc[t].lg])) : ~HasPiece(w, loc[t].line.id)

\* An Info message on a verbose Logger with the system log has reached the
\* log file, standard output and the system-log info channel.
C5_Witness ==
  \E t \in Threads :
    /\ EndedWrite(t, {sInfo}) /\ loc[t].err = Nil
    /\ args[loc[t].lg].verbose /\ args[loc[t].lg].systemLog
    /\ \A w \in {args[loc[t].lg].logFile, Stdout, SysInfo} : HasLine(w, loc[t].line.id)
    /\ ~HasPiece(Stderr, loc[t].line.id)

\* C6 as stated: every Error and every Fatal message on a Logger built by
\* Init is handed to logFile and to the process error stream always, to the
\* system-log error channel iff systemLog, and never to standard output.
C6_Original ==
  \A t \in Threads : EndedWrite(t, {sError, sFatal}) =>
    LET a == args[loc[t].lg]
        tr == Range(loc[t].tried) IN
    /\ a.logFile \in tr
    /\ Stderr \in tr
    /\ (SysErr \in tr) <=> a.systemLog
    /\ Stdout \notin tr

\* The label of a severity.
Label(sev) == IF sev = sInfo THEN "INFO: " ELSE IF sev = sError THEN "ERROR: " ELSE "FATAL: "

\* C6 amended: Error and Fatal messages on a Logger built by Init have the
\* same destinations: logFile, then the process error stream, then the
\* system-log error channel if systemLog, in that order and only as far as
\* the first write that fails (all of them when none fails); the verbose flag
\* plays no part, standard output never receives any of it, and the two
\* severities differ in the prefix of the line only.
C6_ErrorFatalDestinations ==
  \A t \in Threads : EndedWrite(t, {sError, sFatal}) =>
    /\ WroteUpToFirstFailure(t, ErrorDest(args[loc[t].lg]))
    /\ \A w \in Sinks \ Range(ErrorDest(args[loc[t].lg])) : ~HasPiece(w, loc[t].line.id)
    /\ \A w \in Sinks : \A i \in 1..Len(out[w]) :
          (out[w][i].c = loc[t].line.id /\ out[w][i].part = "head")
            => out[w][i].pre = <<Label(loc[t].s)>>

\* A Fatal message on a verbose Logger with the system log has reached the
\* log file, the process error stream and the system-log error channel, and
\* not standard output.
C6_Witness ==
  \E t \in Threads :
    /\ EndedWrite(t, {sFatal}) /\ loc[t].err = Nil
    /\ args[loc[t].lg].verbose /\ args[loc[t].lg].systemLog
    /\ \A w \in {args[loc[t].lg].logFile, Stderr, SysErr} : HasLine(w, loc[t].line.id)
    /\ ~HasPiece(Stdout, loc[t].line.id)

\* ---- logging before Init
InWrite == {"out_head", "out_tail", "out_unlock"}

IsLogPiece(x) == x.part \in {"head", "tail"}
LogPieces(w) == SelectSeq(out[w], IsLogPiece)

\* C8: at most one thread at a time is inside the write step of output, and
\* it holds logLock; in what the log calls write to a sink, the head of a line
\* is directly followed by the tail of the same line (or is the last piece,
\* its writer being about to write the tail), so that no line has pieces of
\* another call's line inside it.
C8_WritesMutuallyExclusive ==
  /\ \A t \in Threads : pc[t] \in InWrite =>
        /\ logLock = t
        /\ \A u \in Threads \ {t} : pc[u] \notin InWrite
  /\ \A w \in Sinks :
        LET q == LogPieces(w) IN
        \A i \in 1..Len(q) :
          /\ q[i].part = "head" =>
                IF i < Len(q)
                THEN q[i + 1].part = "tail" /\ q[i + 1].c = q[i].c
                ELSE \E t \in Threads : /\ pc[t] = "out_tail" /\ loc[t].line.id = q[i].c
                                         /\ CurWriter(t) = w
          /\ q[i].part = "tail" =>
                i > 1 /\ q[i - 1].part = "head" /\ q[i - 1].c = q[i].c

\* One thread is in the middle of writing a line of a Logger built by Init
\* to the process error stream, while another thread, inside a log call on
\* the placeholder, which writes to the same stream, waits for the lock.
C8_Witness ==
  \E t \in Threads, u \in Threads :
    /\ pc[t] = "out_tail" /\ CurWriter(t) = Stderr /\ loc[t].lg >= 2
    /\ pc[u] = "out_lock" /\ loc[u].lg = 1

\* ---- one line per call
RECURSIVE Newlines(_)
Newlines(q) == IF q = <<>> THEN 0 ELSE q[1].nls + Newlines(Tail(q))

\* The log calls made on Loggers whose primary sink is the in-memory buffer.
BufCalls == {n \in 1..ncalls : calls[n].lg >= 2 /\ args[calls[n].lg].logFile = "buf"}
Returned(n) == \A t \in Threads : pc[t] = "idle" \/ loc[t].line.id # n
PiecesOf(w, n) == {i \in 1..Len(out[w]) : out[w][i].c = n}

\* C9: every Info/Error call on a Logger backed by the in-memory sink that
\* has returned has exactly one line in the sink, whole and ended by one
\* newline; every line in the sink is the line of one such call; so the number
\* of lines in the sink is the number of calls whose line it holds, and once
\* all calls have returned it is the number of calls.
C9_OneLinePerCall ==
  /\ \A n \in BufCalls : Returned(n) =>
        /\ HasLine("buf", n)
        /\ Cardinality(PiecesOf("buf", n)) = 2
  /\ \A i \in 1..Len(out["buf"]) : out["buf"][i].c \in BufCalls
  /\ Newlines(out["buf"]) = Cardinality({n \in BufCalls : HasLine("buf", n)})
  /\ (Running /\ \A t \in Threads : pc[t] = "idle") =>
        Newlines(out["buf"]) = Cardinality(BufCalls)

\* Two log calls on Loggers backed by the in-memory sink have returned and
\* every thread is back in its caller.
C9_Witness ==
  /\ Running /\ \A t \in Threads : pc[t] = "idle"
  /\ Cardinality(BufCalls) >= 2
  /\ Newlines(out["buf"]) = 2

\* ---- separation of Loggers
PrimaryOf(l) == args[l].logFile

\* C10: the line of a log call on a Logger never appears in the primary sink
\* of a Logger built with a different primary sink, and a line written through
\* the placeholder appears in no primary sink; a free-function call is a call
\* on the placeholder or on the Logger in the default slot, so its line never
\* reaches the primary sink of a Logger that is not the default and has
\* another primary sink.
C10_NoCrossContamination ==
  \A n \in 1..ncalls : calls[n].lg # 0 =>
    /\ \A b \in 2..Len(heap) :
          (calls[n].lg = 1 \/ PrimaryOf(b) # PrimaryOf(calls[n].lg)) => ~HasPiece(PrimaryOf(b), n)
    /\ calls[n].free => calls[n].lg \in {1, defaultLogger}

\* Two Loggers with different primary sinks have been returned; a free
\* function call has written its line to the primary sink of the first, the
\* default, and nothing to the primary sink of the second.
C10_Witness ==
  \E n \in 1..ncalls : \E b \in held :
    /\ calls[n].free /\ calls[n].lg = defaultLogger /\ defaultLogger \in held
    /\ b # defaultLogger /\ PrimaryOf(b) # PrimaryOf(defaultLogger)
    /\ HasLine(PrimaryOf(defaultLogger), n)
    /\ ~HasPiece(PrimaryOf(b), n)

\* ---- Init when the system log cannot be set up
\* The step is the start of an Init call that builds no Logger.
InitFailedStep ==
  /\ ncalls' = ncalls + 1 /\ calls'[ncalls'].lg = 0
  /\ Len(heap') = Len(heap)

\* C11: an Init call asking for the system log whose setup fails ends the
\* process (log.Fatal: a line on the error stream, exit status 1) instead of
\* returning: it builds and returns no Logger and leaves the default slot as
\* it was; where setup always fails no Logger with the system log exists, and
\* a Logger built with the system log always has both system-log sinks.
C11_SetupFailureExits ==
  /\ [](/\ ~hasSyslog => \A l \in 2..Len(heap) : ~args[l].systemLog
        /\ \A l \in 2..Len(heap) : args[l].systemLog =>
              /\ SysInfo \in Range(heap[l].infoLog.w)
              /\ SysErr \in Range(heap[l].errorLog.w)
              /\ SysErr \in Range(heap[l].fatalLog.w))
  /\ [][InitFailedStep =>
          /\ ~hasSyslog
          /\ exitCode' = 1
          /\ heap' = heap /\ defaultLogger' = defaultLogger /\ held' = held
          /\ slotWrites' = slotWrites /\ initsDone' = initsDone /\ pc' = pc
          /\ out'[Stderr][Len(out'[Stderr])].part = "log.Fatal"]_vars

\* A first Init has installed its Logger as the default; a later Init asking
\* for the system log, on a build whose setup fails, has ended the process
\* with the default unchanged.
C11_Witness ==
  /\ ~hasSyslog /\ exitCode = 1
  /\ ncalls >= 2 /\ calls[ncalls].lg = 0
  /\ defaultLogger = 2 /\ Len(heap) = 2 /\ held = {2}
  /\ Len(out[Stderr]) >= 1 /\ out[Stderr][Len(out[Stderr])].part = "log.Fatal"

\* ---- a failed write of Info/Error
\* Thread t is at the end of an Info/Error output one of whose writes failed,
\* and takes its step.
FailedOutputEnds(t) ==
  /\ pc[t] = "out_unlock" /\ loc[t].s \in {sInfo, sError} /\ loc[t].err # Nil
  /\ pc'[t] # pc[t]

\* Call n was made on Logger l, has returned, and left nothing in any sink.
LeftNothing(n, l) ==
  /\ calls[n].lg = l /\ calls[n].s \in {sInfo, sError} /\ Returned(n)
  /\ \A w \in Sinks : ~HasPiece(w, n)

\* C13: an Info/Error call one of whose sink writes failed returns to its
\* caller with the lock released, the process running and nothing else
\* changed; a Logger once built is never modified, sinks are closed only by
\* the close step of a Fatal call and the default slot is assigned only by
\* Init; and every call that reaches the end of its output, whatever happened
\* to earlier calls, has tried its write, starting with the first sink.
C13_WriteFailureIsDropped ==
  /\ [](\A t \in Threads : pc[t] = "out_unlock" =>
          /\ Len(loc[t].tried) >= 1
          /\ loc[t].tried[1] = CurLog(t).w[1])
  /\ [][/\ \A t \in Threads : FailedOutputEnds(t) =>
              /\ pc'[t] = "idle" /\ logLock' = 0 /\ exitCode' = -1
              /\ heap' = heap /\ closed' = closed /\ defaultLogger' = defaultLogger
              /\ out' = out /\ held' = held
        /\ \A l \in 1..Len(heap) : heap'[l] = heap[l]
        /\ closed' # closed =>
              \E t \in Threads : pc[t] = "close_loop" /\ loc[t].s = sFatal
        /\ defaultLogger' # defaultLogger => \E t \in Threads : pc[t] = "init_set"]_vars

\* An Info/Error call on a Logger has returned after its only attempted
\* write failed, leaving nothing in any sink; a later call on the same Logger
\* has written its line to the Logger's file.
C13_Witness ==
  \E t \in Threads : \E n \in 1..ncalls :
    /\ pc[t] = "out_unlock" /\ loc[t].lg >= 2 /\ loc[t].err = Nil
    /\ n < loc[t].line.id /\ LeftNothing(n, loc[t].lg)
    /\ HasLine("file", loc[t].line.id)
    /\ "file" \notin closed /\ Running

\* ---- Fatal ends the process
InFatal(t) == pc[t] # "idle" /\ loc[t].s = sFatal

\* C14: every Fatal call, on a Logger built by Init or on the placeholder,
\* whether or not its write failed and whether or not a Close failed, ends
\* with the process exited with status 1; a Close is called on every closer
\* of the Logger, a failure of one neither ends the loop nor keeps the call
\* from its exit, and the call is at its exit only after the loop is done.
C14_FatalAlwaysExits ==
  /\ \A t \in Threads : InFatal(t) ~> (exitCode = 1)
  /\ [](\A t \in Threads : pc[t] \in {"close_unlock", "exit"} =>
          /\ InFatal(t)
          /\ loc[t].i = Len(heap[loc[t].lg].closers) + 1
          /\ Range(heap[loc[t].lg].closers) \subseteq closed)
  /\ [](exitCode \in {-1, 1})

\* A Fatal call whose write to the file failed and whose Close of the file
\* failed as well has ended the process with status 1.
C14_Witness ==
  \E t \in Threads :
    /\ exitCode = 1 /\ pc[t] = "exit"
    /\ loc[t].err # Nil /\ loc[t].cerr /\ loc[t].lg >= 2

\* ---- a severity output does not know
InDefaultBranch(t) == pc[t] = "out_switch" /\ loc[t].s \notin {sInfo, sError, sFatal}

\* C15: a call of output with a severity that is none of Info, Error and
\* Fatal panics at the switch: nothing of it is ever in any sink, the panic
\* releases the lock on its way out, the call never returns to its caller,
\* and the panic ends the process.
C15_UnknownSeverityPanics ==
  /\ [](/\ \A n \in 1..ncalls : calls[n].s \in OtherSeverities =>
              \A w \in Sinks : ~HasPiece(w, n)
        /\ \A t \in Threads : pc[t] = "panicking" =>
              /\ logLock # t
              /\ loc[t].s \in OtherSeverities /\ loc[t].tried = <<>>
        /\ exitCode = 2 => \E t \in Threads : pc[t] = "panicking")
  /\ [][\A t \in Threads :
          /\ (InDefaultBranch(t) /\ pc'[t] # pc[t]) =>
                pc'[t] = "panicking" /\ logLock = t /\ logLock' = 0 /\ out' = out
          /\ pc[t] = "panicking" => pc'[t] = "panicking"]_vars

\* A call of output with an unknown severity has panicked and the process
\* has not ended yet; another thread has taken the lock since and is in the
\* middle of writing its line.
C15_Witness ==
  \E t \in Threads, u \in Threads :
    /\ Running /\ pc[t] = "panicking" /\ loc[t].s \in OtherSeverities
    /\ pc[u] = "out_tail" /\ logLock = u
    /\ loc[u].line.id > loc[t].line.id

\* ---- every call comes to its end
\* Where a thread holds logLock, and where it waits for it.
LockHeld == {"init_check", "init_set", "init_ret",
             "out_head", "out_tail", "out_unlock", "close_loop", "close_unlock"}
LockWait == {"init_lock", "out_lock", "close_lock"}

\* C18: under fair scheduling every call that has started comes to its end:
\* Init, Info and Error return to the caller and every Fatal call reaches
\* its exit (unless another call ends the process first); the lock is held
\* exactly by a thread between a Lock and the matching deferred Unlock, so
\* it is free whenever its last holder has returned, and a Fatal call does
\* not hold it between its output and its close; a thread that waits for
\* the lock is never its holder.
C18_CallsTerminate ==
  /\ \A t \in Threads : (pc[t] # "idle") ~> (pc[t] = "idle" \/ exitCode # -1)
  /\ \A t \in Threads : InFatal(t) ~> (exitCode # -1)
  /\ [](\A t \in Threads : (logLock = t) <=> (pc[t] \in LockHeld))
  /\ [](\A t \in Threads : pc[t] \in LockWait \cup {"idle", "close_call", "exit"} => logLock # t)

\* A Fatal call has returned from output and waits for the lock at its close
\* step while another thread holds the lock in the middle of a write.
C18_Witness ==
  \E t \in Threads, u \in Threads :
    /\ Running /\ InFatal(t) /\ pc[t] = "close_lock"
    /\ logLock = u /\ pc[u] = "out_tail"

\* ---- writes after a Fatal call's close
\* C19: no thread is ever inside a write of a line (holding the lock, at or
\* between the pieces of a line) on a Logger one of whose sinks has been
\* closed: after the close step of a Fatal call no other call gets the lock
\* and writes before the process has exited.
C19_NoWriteAfterClose ==
  \A u \in Threads :
    pc[u] \in {"out_head", "out_tail"} => closed \cap Range(CurLog(u).w) = {}

\* ---- free functions racing with the first Init
\* The free-function log calls made so far.
FreeCalls == {n \in 1..ncalls : calls[n].free /\ calls[n].lg # 0}

\* The log.Logger call n went through.
LogOf(n) == Route(heap[calls[n].lg], calls[n].s)

\* The step starts a free-function log call.
FreeCallStarts ==
  /\ ncalls' = ncalls + 1
  /\ calls'[ncalls'].free /\ calls'[ncalls'].lg # 0

\* C20: a free-function call goes through exactly one Logger, the
\* placeholder or the Logger in the default slot: every piece of its line is
\* in a sink of that Logger and carries that Logger's prefix (with the
\* warning exactly when it is the placeholder), and once the call has
\* returned its line is in that Logger's first sink (unless that sink is a
\* file, whose write can fail); a free-function call that starts after an
\* Init has returned goes through the Logger of the first Init, which is the
\* default from then on.
C20_RacingFreeCallGoesToOneLogger ==
  /\ [](\A n \in FreeCalls :
          /\ calls[n].lg \in {1, defaultLogger}
          /\ \A w \in Sinks : \A i \in 1..Len(out[w]) : out[w][i].c = n =>
                /\ w \in Range(LogOf(n).w)
                /\ out[w][i].part = "head" =>
                      /\ out[w][i].pre = LogOf(n).prefix
                      /\ IsPrefix(initText, out[w][i].pre) <=> (calls[n].lg = 1)
          /\ Returned(n) => (HasLine(LogOf(n).w[1], n) \/ LogOf(n).w[1] \in Files))
  /\ [][(FreeCallStarts /\ initsDone >= 1) =>
          /\ calls'[ncalls'].lg = defaultLogger
          /\ defaultLogger # 1 /\ defaultLogger \in held /\ slotWrites = 1
          /\ heap[defaultLogger].initialized]_vars

\* A free-function call read the placeholder from the default slot, the
\* first Init then installed its Logger and returned, and the call has now
\* written its whole line, with the warning, to the error stream and to no
\* sink of the new Logger.
C20_Witness ==
  \E t \in Threads :
    /\ pc[t] = "out_unlock" /\ loc[t].free /\ loc[t].lg = 1
    /\ initsDone = 1 /\ defaultLogger = 2 /\ args[2].logFile = "buf"
    /\ HasLine(Stderr, loc[t].line.id)
    /\ ~HasPiece("buf", loc[t].line.id)

\* ============================== claims about the queue-based variant
QWorkersOf(l) == {k \in 1..Len(qworkers) : qworkers[k].lg = l}

\* C12: NewLogger returns an error exactly when the name is empty, and then
\* no logger: that call makes no channel and starts no goroutine; otherwise
\* it returns a new logger, and every logger has exactly one goroutine, which
\* receives from that logger's channel and writes to the writer NewLogger
\* was given.
C12_NewLoggerChecksName ==
  /\ [](/\ qret.name # Nil =>
              /\ qret.err <=> (Len(qret.name) = 0)
              /\ qret.err => qret.l = 0
              /\ ~qret.err => qret.l \in qheld
        /\ qheld = 1..Len(qloggers)
        /\ \A l \in 1..Len(qloggers) :
              /\ Cardinality(QWorkersOf(l)) = 1
              /\ \A k \in QWorkersOf(l) : qworkers[k].w = qloggers[l].w)
  /\ [][/\ (qret' # qret /\ qret'.err) =>
              qloggers' = qloggers /\ qworkers' = qworkers /\ qheld' = qheld
        /\ (qloggers' # qloggers \/ Len(qworkers') # Len(qworkers)) =>
              /\ ~qret'.err /\ Len(qret'.name) > 0
              /\ qret'.l = Len(qloggers) + 1
              /\ Len(qloggers') = Len(qloggers) + 1
              /\ Len(qworkers') = Len(qworkers) + 1
              /\ qworkers'[Len(qworkers')].pc = "recv"]_qvars

QHasLine(w, n) ==
  \E i \in 1..(Len(qsink[w]) - 1) :
    /\ qsink[w][i].c = n /\ qsink[w][i].part = "head"
    /\ qsink[w][i + 1].c = n /\ qsink[w][i + 1].part = "tail"

\* NewLogger with a name made a logger, whose goroutine has since written a
\* message to the writer; the last call of NewLogger, with the empty name,
\* returned an error and there is still one logger and one goroutine.
C12_Witness ==
  /\ qret.name = "" /\ qret.err
  /\ Len(qloggers) = 1 /\ Len(qworkers) = 1
  /\ \E n \in 1..Len(qmsgs) : QHasLine(qloggers[1].w, n)

\* C16: when the process has exited, a Fatal call that was at its exit has
\* its line, whole, in the sink of its logger.
C16_FatalWrittenBeforeExit ==
  qexit = 1 =>
    \E t \in Threads :
      qpc[t] = "exit" /\ QHasLine(qloggers[qloc[t].lg].w, qloc[t].m.id)

\* ---- one worker, one write at a time
\* The pieces logger l has written to writer w, in order.
QPiecesOf(w, l) == SelectSeq(qsink[w], LAMBDA x : x.lg = l)
QHeads(n) == {<<w, i>> \in QSinks \X (1..2 * MaxQCalls + 2) :
                i <= Len(qsink[w]) /\ qsink[w][i].c = n /\ qsink[w][i].part = "head"}
QTails(n) == {<<w, i>> \in QSinks \X (1..2 * MaxQCalls + 2) :
                i <= Len(qsink[w]) /\ qsink[w][i].c = n /\ qsink[w][i].part = "tail"}
\* Message n has been written: both pieces of its line are in a writer
\* (pieces of another logger on the same writer may lie between them).
QWritten(n) == QHeads(n) # {} /\ QTails(n) # {}
QInHand(n) == \E k \in 1..Len(qworkers) : qworkers[k].m.id = n
QReturned(n) == n <= Len(qmsgs) /\ qmsgs[n].got /\ qmsgs[n].sev # "Fatal"

InClose(t) == pc[t] \in {"close_loop", "close_unlock", "exit"}

\* The Logger call n was made on: for a free function, the Logger it read
\* from the default slot when it started.
CalledOn(t) == calls[loc[t].line.id].lg

\* C21: the placeholder owns no closer and a Logger built by Init owns
\* exactly its primary sink when that supports Close and nothing otherwise;
\* a sink is only ever closed by the close step of a Fatal call, and it is a
\* closer of the Logger that call closes: the Logger the method was called
\* on, or for a free function the Logger in the default slot; so every closed
\* sink is the primary sink of a Logger a Fatal call is closing, and a Logger
\* with another primary sink keeps its closer unclosed.
C21_ClosersAreOwn ==
  /\ [](/\ heap[1].closers = <<>>
        /\ \A l \in 2..Len(heap) :
              heap[l].closers = IF IsCloser(args[l].logFile) THEN <<args[l].logFile>> ELSE <<>>
        /\ \A c \in closed : \E t \in Threads :
              /\ InFatal(t) /\ InClose(t) /\ loc[t].lg >= 2
              /\ c = args[loc[t].lg].logFile
        /\ \A b \in 2..Len(heap) :
              (\A t \in Threads : (InFatal(t) /\ InClose(t)) =>
                                     PrimaryOf(loc[t].lg) # PrimaryOf(b))
                => Range(heap[b].closers) \cap closed = {})
  /\ [][\A c \in Files : (c \in closed' /\ c \notin closed) =>
          \E t \in Threads :
            /\ pc[t] = "close_loop" /\ InFatal(t) /\ pc'[t] # "close_loop"
            /\ heap[loc[t].lg].closers = <<c>>
            /\ IF loc[t].free THEN loc[t].lg = defaultLogger
                              ELSE loc[t].lg = CalledOn(t)]_vars

\* Two Loggers own a file each; a Fatal method call on the one that is not
\* the default has closed its file and is at its exit, and the file of the
\* default Logger is open.
C21_Witness ==
  \E t \in Threads : \E b \in 2..Len(heap) :
    /\ pc[t] = "exit" /\ InFatal(t) /\ ~loc[t].free
    /\ loc[t].lg # defaultLogger /\ b = defaultLogger
    /\ heap[loc[t].lg].closers # <<>> /\ heap[b].closers # <<>>
    /\ PrimaryOf(b) # PrimaryOf(loc[t].lg)
    /\ closed = {PrimaryOf(loc[t].lg)}

====
